---- MODULE Spec2Model ----
(***************************************************************************)
(* The code sandbox of WebsiteME as the repository implements it:          *)
(*   - the sandbox page (frontend): SandboxPage with its mock executeCode,  *)
(*     one instance per open browser tab;                                  *)
(*   - POST /api/sandbox/execute (backend): the mock execution endpoint.    *)
(* Neither has a scheduler, a queue, an isolation boundary or a limiter:   *)
(* a submitted job is a pending executeCode call (frontend) or a request   *)
(* answered in one step (backend).                                         *)
(***************************************************************************)
EXTENDS Integers, Sequences, FiniteSets, TLC

VARIABLES
    pages,      \* page -> the React state of that SandboxPage instance
    jobs,       \* page -> the latest executeCode call made by that page
    lastReq,    \* the last request the backend received, or NoValue
    lastResp,   \* the response sent for it, or NoValue
    served,     \* number of requests the backend answered
    limiter     \* client IP -> the code execution limiter's count for that IP

vars == <<pages, jobs, lastReq, lastResp, served, limiter>>

----------------------------------------------------------------------------
(* Bounds of the model *)

NumPages == 3
MaxRuns == 2
MaxRequests == 2
MaxOverLimit == 2
MaxLimitedRequests == 13
MaxQueryLen == 3

Pages == 1..NumPages

NoValue == "undefined"

----------------------------------------------------------------------------
(* Source texts.  A text is named by a string; what the code reads of it    *)
(* (String.includes) and what the program would do when really executed    *)
(* are given by the operators below.                                        *)

\* codeTemplates: language -> template key -> text
TemplateKeys(language) ==
    CASE language = "javascript" -> {"basic", "react", "async"}
      [] language = "python"     -> {"basic", "class", "dataScience"}
      [] language = "java"       -> {"basic"}
      [] OTHER                   -> {}

codeTemplates(language, template) ==
    CASE language = "javascript" /\ template = "basic"       -> "js.basic"
      [] language = "javascript" /\ template = "react"       -> "js.react"
      [] language = "javascript" /\ template = "async"       -> "js.async"
      [] language = "python"     /\ template = "basic"       -> "py.basic"
      [] language = "python"     /\ template = "class"       -> "py.class"
      [] language = "python"     /\ template = "dataScience" -> "py.dataScience"
      [] language = "java"       /\ template = "basic"       -> "java.basic"
      [] OTHER                                               -> NoValue

\* Texts a user types into the editor, named after what the program does when
\* it is really run:
\*   typed.loop   loops forever (never exits)
\*   typed.alloc  allocates far beyond the memory limit, then exits 0
\*   typed.flood  writes more than the output limit, then exits 0
\*   typed.exit1  exits with code 1
\*   typed.long   longer than the maximum source length, exits 0
TypedTexts == {"typed.loop", "typed.alloc", "typed.flood", "typed.exit1", "typed.long"}

TemplateTexts == {"js.basic", "js.react", "js.async", "py.basic", "py.class",
                  "py.dataScience", "java.basic"}

\* code.includes('console.log')
IncludesConsoleLog(code) == code \in {"js.basic", "js.async"}

\* code.includes('print')  ("System.out.println" contains "print")
IncludesPrint(code) == code \in {"py.basic", "py.class", "py.dataScience", "java.basic"}

\* the languages the sandbox offers
languages == {"javascript", "python", "java"}

HelloOutput == "Hello, World!\n42\n[1, 2, 3, 4, 5]"
DoneOutput == "Code executed successfully!"

\* executeCode(code, language), after its 1500 ms delay
executeCode(code, language) ==
    IF language = "javascript" /\ IncludesConsoleLog(code)
        THEN [output |-> HelloOutput]
    ELSE IF language = "python" /\ IncludesPrint(code)
        THEN [output |-> HelloOutput]
    ELSE [output |-> DoneOutput]

----------------------------------------------------------------------------
(* SandboxPage *)

InitialPage ==
    [selectedLanguage |-> "javascript", selectedTemplate |-> "basic",
     code |-> codeTemplates("javascript", "basic"), output |-> "",
     isExecuting |-> FALSE, error |-> ""]

\* no executeCode call made yet
NoJob == [n |-> 0, state |-> "None", code |-> NoValue, language |-> NoValue, output |-> NoValue]

\* the pages whose executeCode call is pending (its timer has not fired)
Running == {p \in Pages : jobs[p].state = "Running"}

Completed == {p \in Pages : jobs[p].state = "Completed"}

\* onClick of a language button
handleLanguageChange(p, language) ==
    /\ language \in languages
    /\ pages' = [pages EXCEPT ![p] =
          [@ EXCEPT !.selectedLanguage = language,
                    !.selectedTemplate = "basic",
                    !.code = IF codeTemplates(language, "basic") # NoValue
                                THEN codeTemplates(language, "basic")
                                ELSE "// No template available",
                    !.output = "",
                    !.error = ""]]
    /\ UNCHANGED <<jobs, lastReq, lastResp, served, limiter>>

\* onClick of a template button (the buttons are the keys of the selected language)
handleTemplateChange(p, template) ==
    /\ template \in TemplateKeys(pages[p].selectedLanguage)
    /\ pages' = [pages EXCEPT ![p] =
          [@ EXCEPT !.selectedTemplate = template,
                    !.code = IF codeTemplates(pages[p].selectedLanguage, template) # NoValue
                                THEN codeTemplates(pages[p].selectedLanguage, template)
                                ELSE "// Template not found",
                    !.output = "",
                    !.error = ""]]
    /\ UNCHANGED <<jobs, lastReq, lastResp, served, limiter>>

\* onChange of the editor textarea
setCode(p, text) ==
    /\ pages[p].code # text
    /\ pages' = [pages EXCEPT ![p].code = text]
    /\ UNCHANGED <<jobs, lastReq, lastResp, served, limiter>>

\* the job an executeCode call stands for: the arguments of the call
NewJob(p) ==
    [n |-> jobs[p].n + 1, state |-> "Running", code |-> pages[p].code,
     language |-> pages[p].selectedLanguage, output |-> NoValue]

\* (mutant) the Run Code button stays enabled while a call is in flight
handleExecute_enabled(p) ==
    /\ jobs[p].n < MaxRuns
    /\ pages' = [pages EXCEPT ![p] =
          [@ EXCEPT !.isExecuting = TRUE, !.error = "", !.output = "Executing code..."]]
    /\ jobs' = [jobs EXCEPT ![p] = NewJob(p)]
    /\ UNCHANGED <<lastReq, lastResp, served, limiter>>

\* onClick of Run Code (disabled while isExecuting), up to the await
handleExecute(p) ==
    /\ ~pages[p].isExecuting
    /\ jobs[p].n < MaxRuns
    /\ pages' = [pages EXCEPT ![p] =
          [@ EXCEPT !.isExecuting = TRUE, !.error = "", !.output = "Executing code..."]]
    /\ jobs' = [jobs EXCEPT ![p] = NewJob(p)]
    /\ UNCHANGED <<lastReq, lastResp, served, limiter>>

\* (mutant) the job is run again when its promise resolves
Resolved_rerun(job) ==
    [job EXCEPT !.n = @ + 1]

\* (mutant) the job is put back in the queue when its promise resolves
Resolved_requeued(job) ==
    [job EXCEPT !.state = "Queued",
                !.output = executeCode(job.code, job.language).output]

\* the state of a job whose promise resolved
Resolved(job) ==
    [job EXCEPT !.state = "Completed",
                !.output = executeCode(job.code, job.language).output]

\* (mutant) the call runs the submitted text, so a loop never returns
executeCodeResolves_runs(p) ==
    /\ jobs[p].state = "Running"
    /\ jobs[p].code # "typed.loop"
    /\ jobs' = [jobs EXCEPT ![p] = Resolved(jobs[p])]
    /\ pages' = [pages EXCEPT ![p] =
          [@ EXCEPT !.output = Resolved(jobs[p]).output,
                    !.isExecuting = FALSE]]
    /\ UNCHANGED <<lastReq, lastResp, served, limiter>>

\* the timer of page p's call fires: executeCode returns and handleExecute resumes
executeCodeResolves(p) ==
    /\ jobs[p].state = "Running"
    /\ jobs' = [jobs EXCEPT ![p] = Resolved(jobs[p])]
    /\ pages' = [pages EXCEPT ![p] =
          [@ EXCEPT !.output = Resolved(jobs[p]).output,
                    !.isExecuting = FALSE]]
    /\ UNCHANGED <<lastReq, lastResp, served, limiter>>

----------------------------------------------------------------------------
(* POST /api/sandbox/execute *)

\* (mutant) the result depends on the submitted text
mockResult_runs(body) ==
    [output |-> IF body.code = "typed.loop" THEN "" ELSE "Hello, World!\n",
     error |-> "null", executionTime |-> "0.045",
     memoryUsed |-> "2.3 MB", language |-> body.language,
     status |-> IF body.code = "typed.loop" THEN "Timeout" ELSE "success"]

\* the mock result the route answers with
mockResult(body) ==
    [output |-> "Hello, World!\n", error |-> "null", executionTime |-> "0.045",
     memoryUsed |-> "2.3 MB", language |-> body.language, status |-> "success"]

\* the response of the route: destructuring req.body throws when there is no
\* parsed body, and the catch block answers 500
executeResponse(body) ==
    IF body.parsed
        THEN [code |-> 200, json |-> mockResult(body)]
        ELSE [code |-> 500, json |-> [error |-> "Error executing code"]]

postExecute(body) ==
    /\ served < MaxRequests
    /\ lastReq' = body
    /\ lastResp' = executeResponse(body)
    /\ served' = served + 1
    /\ UNCHANGED <<pages, jobs, limiter>>

\* request bodies: any text, a registered language, an unregistered one or none;
\* the JSON body parser of the documented middleware stack has parsed the body
RequestLanguages == languages \cup {"cobol", NoValue}

RequestBodies ==
    [parsed : {TRUE}, code : TemplateTexts \cup TypedTexts,
     language : RequestLanguages, input : {"", "1 2"}]

----------------------------------------------------------------------------
(* The code execution rate limiter (express-rate-limit) *)

\* codeLimiter: max
codeLimiterMax == 10

\* codeLimiter: windowMs (one minute), in steps of the clock
WindowTicks == 2

\* the clients
ClientIps == {"10.0.0.1", "10.0.0.2"}

\* hits: requests counted in the limiter's current window of the IP;
\* age: steps of the clock since that window began;
\* runs[i]: requests passed on to the route i - 1 steps of the clock ago
NoHits == [hits |-> 0, age |-> 0, runs |-> [i \in 1..WindowTicks |-> 0]]

\* codeLimiter: message
codeLimiterMessage ==
    [error |-> "Code execution rate limit exceeded. Please wait before running more code."]

\* the limiter refuses a request once the window's count exceeds max
OverLimit(hits) == hits > codeLimiterMax

\* POST /api/sandbox/execute behind codeLimiter
limitedExecute(ip, body) ==
    /\ limiter[ip].hits < codeLimiterMax + MaxOverLimit
    /\ served < MaxLimitedRequests
    /\ lastReq' = body
    /\ served' = served + 1
    /\ IF OverLimit(limiter[ip].hits + 1)
          THEN /\ lastResp' = [code |-> 429, json |-> codeLimiterMessage]
               /\ limiter' = [limiter EXCEPT ![ip].hits = @ + 1]
          ELSE /\ lastResp' = executeResponse(body)
               /\ limiter' = [limiter EXCEPT ![ip].hits = @ + 1, ![ip].runs[1] = @ + 1]
    /\ UNCHANGED <<pages, jobs>>

\* the runs of the steps before, one step of the clock later
Shifted(runs) == <<0>> \o SubSeq(runs, 1, WindowTicks - 1)

\* the limiter's entry of an IP one step of the clock later: a window that has
\* lasted windowMs ends and its count starts again with the next request
afterTick(entry) ==
    IF entry.hits = 0
      THEN [hits |-> 0, age |-> 0, runs |-> Shifted(entry.runs)]
      ELSE IF entry.age + 1 >= WindowTicks
             THEN [hits |-> 0, age |-> 0, runs |-> Shifted(entry.runs)]
             ELSE [hits |-> entry.hits, age |-> entry.age + 1,
                   runs |-> Shifted(entry.runs)]

\* the clock advances by one step (windowMs / WindowTicks) for every IP
clockAdvances ==
    /\ limiter' = [ip \in ClientIps |-> afterTick(limiter[ip])]
    /\ limiter' # limiter
    /\ UNCHANGED <<pages, jobs, lastReq, lastResp, served>>

\* the requests the clients of the limited route send
LimitedBodies ==
    [parsed : {TRUE}, code : {"js.basic", "typed.loop"}, language : {"javascript"},
     input : {""}]

----------------------------------------------------------------------------
(* The backend's other routes *)

\* the credentials a request carries
Auths == {"none", "user", "admin"}

\* the routes documented "@access Admin only" and "@access Private"
AdminRoutes ==
    {"GET /api/admin/dashboard", "GET /api/admin/users",
     "PUT /api/admin/users/:id/status", "GET /api/admin/content/moderation",
     "POST /api/admin/content/:id/moderate", "GET /api/admin/analytics",
     "GET /api/admin/system/health"}

PrivateRoutes == {"GET /api/auth/profile", "POST /api/sandbox/save"}

RestrictedRoutes == AdminRoutes \cup PrivateRoutes

\* what each of these handlers sends; none of them reads the credentials
restrictedResponse(req) ==
    CASE req.route = "GET /api/admin/dashboard" ->
            [code |-> 200, json |-> [dashboard |-> "mockStats"]]
      [] req.route = "GET /api/admin/users" ->
            [code |-> 200, json |-> [users |-> "mockUsers", pagination |-> "pagination"]]
      [] req.route = "PUT /api/admin/users/:id/status" ->
            [code |-> 200,
             json |-> [message |-> "User status updated successfully",
                       userId |-> req.id, newStatus |-> req.value]]
      [] req.route = "GET /api/admin/content/moderation" ->
            [code |-> 200, json |-> [moderationQueue |-> "mockModerationQueue",
                                     counts |-> [pending |-> 15, approved |-> 89,
                                                 rejected |-> 23]]]
      [] req.route = "POST /api/admin/content/:id/moderate" ->
            [code |-> 200,
             json |-> [message |-> "Content moderated successfully",
                       contentId |-> req.id, action |-> req.value]]
      [] req.route = "GET /api/admin/analytics" ->
            [code |-> 200, json |-> [analytics |-> "mockAnalytics"]]
      [] req.route = "GET /api/admin/system/health" ->
            [code |-> 200, json |-> [health |-> "mockHealth"]]
      [] req.route = "GET /api/auth/profile" ->
            [code |-> 200, json |-> [message |-> "Profile retrieved successfully"]]
      [] req.route = "POST /api/sandbox/save" ->
            [code |-> 201,
             json |-> [message |-> "Code snippet saved successfully",
                       snippetId |-> "snippet_12345"]]

RestrictedRequests ==
    [route : RestrictedRoutes, auth : Auths, id : {"42"}, value : {"suspended", "approve"}]

restrictedRoute(req) ==
    /\ served < MaxRequests
    /\ lastReq' = req
    /\ lastResp' = restrictedResponse(req)
    /\ served' = served + 1
    /\ UNCHANGED <<pages, jobs, limiter>>

\* a query parameter as Express parses it: absent, a string (a sequence of
\* characters) or an array of strings (the parameter repeated)
QueryChars == {"r", "e", "a", "R", " "}

RECURSIVE StringsUpTo(_)
StringsUpTo(n) ==
    IF n = 0 THEN {<<>>}
    ELSE LET shorter == StringsUpTo(n - 1)
         IN  shorter \cup {Append(s, c) : s \in shorter, c \in QueryChars}

QueryStrings == StringsUpTo(MaxQueryLen)

QueryValues ==
    {[type |-> "undefined"]}
    \cup {[type |-> "string", value |-> s] : s \in QueryStrings}
    \cup {[type |-> "array", items |-> a] :
            a \in {<<<<"r", "e">>>>, <<<<"r", "e">>, <<"a", "c">>>>}}

\* JavaScript truthiness of a query parameter
Truthy(q) ==
    \/ q.type = "array"
    \/ q.type = "string" /\ Len(q.value) > 0

\* GET /api/search: the res.json calls the handler makes, in order
searchSends_noReturn(q) ==
    IF ~Truthy(q)
      THEN <<[code |-> 400, json |-> [error |-> "Search query is required"]],
             [code |-> 200, json |-> [query |-> q, total |-> 145, results |-> "mockResults"]]>>
      ELSE <<[code |-> 200, json |-> [query |-> q, total |-> 145, results |-> "mockResults"]]>>

searchSends(q) ==
    IF ~Truthy(q)
      THEN <<[code |-> 400, json |-> [error |-> "Search query is required"]]>>
      ELSE <<[code |-> 200, json |-> [query |-> q, total |-> 145, results |-> "mockResults"]]>>

getSearch(q) ==
    /\ served < MaxRequests
    /\ lastReq' = [route |-> "GET /api/search", q |-> q]
    /\ lastResp' = [code |-> Head(searchSends(q)).code,
                    json |-> Head(searchSends(q)).json,
                    sent |-> Len(searchSends(q))]
    /\ served' = served + 1
    /\ UNCHANGED <<pages, jobs, limiter>>

\* String.prototype.toLowerCase on the characters of the model
LowerChar(c) == IF c = "R" THEN "r" ELSE c

toLowerCase(s) == [i \in 1..Len(s) |-> LowerChar(s[i])]

\* String.prototype.includes
includes(s, t) ==
    \E i \in 0..(Len(s) - Len(t)) : SubSeq(s, i + 1, i + Len(t)) = t

\* Array.prototype.slice(0, n)
slice(a, n) == SubSeq(a, 1, IF Len(a) < n THEN Len(a) ELSE n)

\* the fixed candidate list of GET /api/search/suggestions
suggestionCandidates ==
    <<<<"r", "e", "a", "c", "t", " ", "h", "o", "o", "k", "s">>,
      <<"r", "e", "a", "c", "t", " ", "p", "e", "r", "f", "o", "r", "m", "a", "n", "c", "e", " ", "o", "p", "t", "i", "m", "i", "z", "a", "t", "i", "o", "n">>,
      <<"r", "e", "a", "c", "t", " ", "n", "a", "t", "i", "v", "e">>,
      <<"r", "e", "a", "c", "t", " ", "t", "e", "s", "t", "i", "n", "g", " ", "l", "i", "b", "r", "a", "r", "y">>,
      <<"r", "e", "a", "c", "t", " ", "r", "o", "u", "t", "e", "r">>>>

\* q.length: the characters of a string, the elements of an array
HasLengthBelow(q, n) ==
    \/ q.type = "string" /\ Len(q.value) < n
    \/ q.type = "array" /\ Len(q.items) < n

mockSuggestions(q) ==
    slice(SelectSeq(suggestionCandidates,
                    LAMBDA suggestion : includes(toLowerCase(suggestion), toLowerCase(q.value))),
          5)

\* GET /api/search/suggestions; q.toLowerCase is a function only for a string
suggestionsResponse(q) ==
    IF ~Truthy(q) \/ HasLengthBelow(q, 2)
      THEN [code |-> 200, json |-> [suggestions |-> <<>>]]
      ELSE IF q.type = "string"
             THEN [code |-> 200, json |-> [suggestions |-> mockSuggestions(q)]]
             ELSE [code |-> 500, json |-> [error |-> "Error fetching suggestions"]]

getSuggestions(q) ==
    /\ served < MaxRequests
    /\ lastReq' = [route |-> "GET /api/search/suggestions", q |-> q]
    /\ lastResp' = suggestionsResponse(q)
    /\ served' = served + 1
    /\ UNCHANGED <<pages, jobs, limiter>>

\* GET /api/sandbox/templates: the templates object of the handler
backendTemplates ==
    [javascript |-> [basic |-> "javascript.basic", function |-> "javascript.function",
                     async |-> "javascript.async"],
     python |-> [basic |-> "python.basic", function |-> "python.function",
                 class |-> "python.class"],
     java |-> [basic |-> "java.basic", method |-> "java.method"]]

\* the function-valued members every object inherits from Object.prototype
InheritedFunctions ==
    {"constructor", "toString", "valueOf", "hasOwnProperty", "isPrototypeOf",
     "propertyIsEnumerable", "toLocaleString", "__defineGetter__",
     "__defineSetter__", "__lookupGetter__", "__lookupSetter__"}

\* templates[language]: an own property, an inherited one, or undefined
templatesLookup(language) ==
    IF language \in DOMAIN backendTemplates
      THEN [kind |-> "own", value |-> backendTemplates[language]]
      ELSE IF language \in InheritedFunctions THEN [kind |-> "function"]
      ELSE IF language = "__proto__" THEN [kind |-> "prototype"]
      ELSE [kind |-> "undefined"]

\* JSON.stringify({ templates: found }): a function-valued member is left out,
\* Object.prototype has no enumerable members
templatesJson(found) ==
    CASE found.kind = "own" -> [templates |-> found.value]
      [] found.kind = "prototype" -> [templates |-> <<>>]
      [] found.kind = "function" -> <<>>

templatesResponse(language) ==
    IF language # NoValue /\ language # "" /\ templatesLookup(language).kind # "undefined"
      THEN [code |-> 200, json |-> templatesJson(templatesLookup(language))]
      ELSE [code |-> 200, json |-> [templates |-> backendTemplates]]

TemplateQueries ==
    languages \cup InheritedFunctions \cup {NoValue, "", "cobol", "__proto__"}

getTemplates(language) ==
    /\ served < MaxRequests
    /\ lastReq' = [route |-> "GET /api/sandbox/templates", language |-> language]
    /\ lastResp' = templatesResponse(language)
    /\ served' = served + 1
    /\ UNCHANGED <<pages, jobs, limiter>>

----------------------------------------------------------------------------
(* The design's vocabulary (spec.md), used to state the claims.  None of it  *)
(* is read by the code.                                                     *)

\* configuration surface of the design (section 6)
maxConcurrentJobs == 1
maxQueueLength == 1
perCallerQuota == 1

\* callerId of the user who has page p open: one user has pages 1 and 2 open
callerId(p) == IF p <= 2 THEN "caller1" ELSE "caller2"

Callers == {callerId(p) : p \in Pages}

\* the limit a program breaches when really run (section 4.3)
Breach(code) ==
    CASE code = "typed.loop"  -> "wallClock"
      [] code = "typed.alloc" -> "memory"
      [] code = "typed.flood" -> "output"
      [] OTHER                -> "none"

\* the program exits with code 0 when left alone
ExitsCleanly(code) == code \notin {"typed.loop", "typed.exit1"}

\* the program never exits on its own (section 8)
NeverExits(code) == code = "typed.loop"

\* sourceCode longer than the configured maximum (section 3)
TooLarge(code) == code = "typed.long"

\* the status the design reports for a breach (section 4.3)
BreachStatus(breach) ==
    CASE breach = "wallClock" -> "Timeout"
      [] breach = "cpu"       -> "Timeout"
      [] breach = "memory"    -> "MemoryExceeded"
      [] breach = "output"    -> "OutputTruncated"

\* the language's RuntimeProfile has a compile step (section 3)
HasCompileStep(language) == language = "java"

\* the text is not a program of the language: its compilation fails
FailsToCompile(code, language) ==
    /\ HasCompileStep(language)
    /\ code \in {"js.basic", "js.react", "js.async", "py.basic", "py.class", "py.dataScience"}

\* the request runs a basic template in its own language: a program that
\* writes a known text to standard output and exits 0 (section 8)
WritesKnownText(body) ==
    \/ body.language = "javascript" /\ body.code = "js.basic"
    \/ body.language = "python" /\ body.code = "py.basic"
    \/ body.language = "java" /\ body.code = "java.basic"

\* the text that program writes to standard output
Stdout(code) ==
    CASE code = "js.basic"   -> "Hello, World!\n42\n[ 1, 2, 3, 4, 5 ]\n"
      [] code = "py.basic"   -> "Hello, World!\n42\n[1, 2, 3, 4, 5]\n"
      [] code = "java.basic" -> "Hello, World!\nResult: 42\nArray length: 5\n"

\* the result carries a truncation flag that is set
TruncationFlagSet(json) == "truncated" \in DOMAIN json /\ json.truncated = TRUE

Queued == {p \in Pages : jobs[p].state = "Queued"}

\* the jobs of caller c that are Queued or Running
InFlight(c) == {p \in Pages : callerId(p) = c /\ jobs[p].state \in {"Queued", "Running"}}

\* the request was answered and ran a program of a registered language
RanProgram == served > 0 /\ lastResp.code = 200 /\ lastReq.language \in languages

\* page p submitted a job in this step
Submitted(p) == jobs'[p].n = jobs[p].n + 1

----------------------------------------------------------------------------
Init ==
    /\ pages = [p \in Pages |-> InitialPage]
    /\ jobs = [p \in Pages |-> NoJob]
    /\ lastReq = NoValue
    /\ lastResp = NoValue
    /\ served = 0
    /\ limiter = [ip \in ClientIps |-> NoHits]

\* One sandbox page, every button and the editor.
PageNext ==
    \/ \E language \in languages : handleLanguageChange(1, language)
    \/ \E template \in TemplateKeys(pages[1].selectedLanguage) : handleTemplateChange(1, template)
    \/ \E text \in TypedTexts : setCode(1, text)
    \/ handleExecute(1)
    \/ executeCodeResolves(1)

\* Several pages open at once, each used to pick a language and run its code.
TabsNext ==
    \E p \in Pages :
        \/ \E language \in languages : handleLanguageChange(p, language)
        \/ handleExecute(p)
        \/ executeCodeResolves(p)

ApiNext == \E body \in RequestBodies : postExecute(body)

Next == PageNext

Spec == Init /\ [][Next]_vars

SpecTabs == Init /\ [][TabsNext]_vars

SpecApi == Init /\ [][ApiNext]_vars

\* the timer of a pending executeCode call eventually fires
SpecFair == Spec /\ WF_vars(executeCodeResolves(1))

LimiterNext ==
    \/ \E ip \in ClientIps : \E body \in LimitedBodies : limitedExecute(ip, body)
    \/ clockAdvances

SpecLimiter == Init /\ [][LimiterNext]_vars

RoutesNext ==
    \/ \E req \in RestrictedRequests : restrictedRoute(req)
    \/ \E q \in QueryValues : getSearch(q)
    \/ \E q \in QueryValues : getSuggestions(q)
    \/ \E language \in TemplateQueries : getTemplates(language)

SpecRoutes == Init /\ [][RoutesNext]_vars

----------------------------------------------------------------------------
(* Claims *)

\* C1: in every reachable state, under any interleaving of submits and
\* completions, at most maxConcurrentJobs jobs are Running.
C1_RunningAtMostN == Cardinality(Running) <= maxConcurrentJobs

\* C2: the wait queue never holds more than maxQueueLength jobs; a submit that
\* arrives while maxConcurrentJobs jobs are Running is queued when fewer than
\* maxQueueLength jobs are Queued, and is rejected (it becomes neither Queued
\* nor Running) when maxQueueLength jobs are Queued.
C2_QueueBoundedOverloaded ==
    [][ /\ Cardinality(Queued') <= maxQueueLength
        /\ \A p \in Pages :
              Submitted(p) /\ Cardinality(Running) >= maxConcurrentJobs =>
                 IF Cardinality(Queued) < maxQueueLength
                    THEN jobs'[p].state = "Queued"
                    ELSE jobs'[p].state \notin {"Queued", "Running"} ]_vars

\* C4: no caller ever has more than perCallerQuota jobs Queued plus Running.
C4_PerCallerQuota == \A c \in Callers : Cardinality(InFlight(c)) <= perCallerQuota

\* C5: a submit whose language is not registered is rejected with
\* UnsupportedLanguage, and one whose source is too long with RequestTooLarge.
C5_RejectedBeforeScheduling ==
    served > 0 =>
        /\ lastReq.language \notin languages =>
               lastResp.json.status = "UnsupportedLanguage"
        /\ lastReq.language \in languages /\ TooLarge(lastReq.code) =>
               lastResp.json.status = "RequestTooLarge"

\* the transitions of the Job state machine (section 4.4)
JobTransitions ==
    {<<"Queued", "Running">>, <<"Running", "Completed">>, <<"Queued", "Cancelled">>}

\* C6: a job changes state only along Queued -> Running, Running -> Completed
\* and Queued -> Cancelled; a new job starts Queued or Running, and a page's
\* job is replaced by a new one only once it is terminal.
C6_JobStateMachine ==
    [][\A p \in Pages :
         IF jobs'[p].n = jobs[p].n
            THEN \/ jobs'[p].state = jobs[p].state
                 \/ <<jobs[p].state, jobs'[p].state>> \in JobTransitions
            ELSE /\ jobs'[p].n = jobs[p].n + 1
                 /\ jobs[p].state \in {"None", "Completed", "Cancelled"}
                 /\ jobs'[p].state \in {"Queued", "Running"} ]_vars

\* C6 witness: the second job of a page ran and completed.
C6_Witness == jobs[1].n = 2 /\ jobs[1].state = "Completed"

\* C9: when the submitted program breaches a limit and also exits cleanly, the
\* result carries the breach status and never success.
C9_BreachBeatsCleanExit ==
    RanProgram /\ Breach(lastReq.code) # "none" /\ ExitsCleanly(lastReq.code) =>
        lastResp.json.status \in {"Timeout", "MemoryExceeded", "OutputTruncated"}

\* C10: each breach maps to its fixed status: wall-clock or CPU time to
\* Timeout, memory to MemoryExceeded, output size to OutputTruncated.
C10_BreachStatus ==
    RanProgram /\ Breach(lastReq.code) # "none" =>
        lastResp.json.status = BreachStatus(Breach(lastReq.code))

\* C11: a job whose program never exits on its own is force-terminated and its
\* result has status Timeout.
C11_LoopYieldsTimeout ==
    RanProgram /\ NeverExits(lastReq.code) =>
        lastResp.json.status = "Timeout"

\* C13: each submitted job is executed at most once and yields at most one
\* result: an execution starts only from an idle page (a Run Code click), never
\* from the outcome of an earlier one; a job has a result only once Completed,
\* and a Completed job and its result never change.
C13_ExecutedOnce ==
    [][\A p \in Pages :
         /\ jobs'[p].n # jobs[p].n => ~pages[p].isExecuting
         /\ jobs'[p].state # "Completed" => jobs'[p].output = NoValue
         /\ jobs'[p].n = jobs[p].n /\ jobs[p].state = "Running" =>
               /\ jobs'[p].code = jobs[p].code
               /\ jobs'[p].language = jobs[p].language
         /\ jobs'[p].n = jobs[p].n /\ jobs[p].state = "Completed" =>
               jobs'[p] = jobs[p] ]_vars

\* C13 witness: a job completed with its result, and the page has since moved
\* to another language.
C13_Witness ==
    /\ jobs[1].state = "Completed"
    /\ jobs[1].output = DoneOutput
    /\ pages[1].selectedLanguage # jobs[1].language

\* C16: for a language with a compile step, a program that fails to compile is
\* not executed and its result has status CompileError with the compiler
\* diagnostics as the error output.
C16_CompileErrorShortCircuits ==
    RanProgram /\ FailsToCompile(lastReq.code, lastReq.language) =>
        /\ lastResp.json.status = "CompileError"
        /\ lastResp.json.error # "null"

\* C17: a program that writes a known text to standard output and exits 0
\* yields a successful result with exit code 0 whose output is that text.
C17_StdoutRoundTrip ==
    RanProgram /\ WritesKnownText(lastReq) =>
        /\ lastResp.json.status = "success"
        /\ lastResp.json.output = Stdout(lastReq.code)
        /\ "exitCode" \in DOMAIN lastResp.json
        /\ lastResp.json.exitCode = 0

\* C20: a program that emits more than the output limit yields OutputTruncated
\* with the truncation flag set; a program that emits a known text within the
\* limit has the flag not set and its output returned whole.
C20_OutputTruncation ==
    RanProgram =>
        /\ Breach(lastReq.code) = "output" =>
              /\ lastResp.json.status = "OutputTruncated"
              /\ TruncationFlagSet(lastResp.json)
        /\ WritesKnownText(lastReq) =>
              /\ ~TruncationFlagSet(lastResp.json)
              /\ lastResp.json.output = Stdout(lastReq.code)

\* C21: an access-restricted route answers 2xx only to an authorized request:
\* an admin route only to an authenticated admin, a Private route only to an
\* authenticated user; an unauthenticated request never gets a 2xx response.
C21_RestrictedRoutesNeedAuth ==
    (served > 0 /\ lastReq.route \in RestrictedRoutes) =>
        /\ lastReq.auth = "none" => lastResp.code \notin 200..299
        /\ (lastReq.route \in AdminRoutes /\ lastReq.auth # "admin") =>
              lastResp.code \notin 200..299

\* the rate the README documents for code execution: runs per minute
DocumentedRunsPerMinute == 10

\* the requests of an IP that were passed on to the route during the last
\* minute (the current step of the clock and the WindowTicks - 1 before it)
RECURSIVE SumOf(_)
SumOf(counts) == IF counts = <<>> THEN 0 ELSE Head(counts) + SumOf(Tail(counts))

RunsInLastMinute(ip) == SumOf(limiter[ip].runs)

\* C22: for every IP and every one-minute window at most 10 requests to
\* POST /api/sandbox/execute get an execution response, and a further request
\* in that minute gets the rate limit error and is not run.
C22_RateLimited ==
    /\ [](\A ip \in ClientIps : RunsInLastMinute(ip) <= DocumentedRunsPerMinute)
    /\ [][\A ip \in ClientIps :
            (RunsInLastMinute(ip) >= DocumentedRunsPerMinute
                /\ limiter'[ip].hits = limiter[ip].hits + 1) =>
                    /\ limiter'[ip].runs = limiter[ip].runs
                    /\ lastResp'.code = 429
                    /\ lastResp'.json = codeLimiterMessage]_vars

\* C23: GET /api/search answers exactly once; with q missing or empty the
\* answer is 400 'Search query is required' and carries no results, with a
\* non-empty q it is a result object whose query field equals q.
C23_SearchRequiresQuery ==
    (served > 0 /\ lastReq.route = "GET /api/search") =>
        /\ lastResp.sent = 1
        /\ IF \/ lastReq.q.type = "undefined"
              \/ lastReq.q.type = "string" /\ lastReq.q.value = <<>>
             THEN /\ lastResp.code = 400
                  /\ DOMAIN lastResp.json = {"error"}
                  /\ lastResp.json.error = "Search query is required"
             ELSE /\ lastResp.code = 200
                  /\ "results" \in DOMAIN lastResp.json
                  /\ lastResp.json.query = lastReq.q

C23_Witness ==
    /\ served = 2
    /\ lastReq.route = "GET /api/search"
    /\ lastReq.q.type = "string"
    /\ lastReq.q.value = <<>>
    /\ lastResp.code = 400

\* C24: POST /api/sandbox/execute answers every request, whatever its code,
\* language and input, with status 'success', error null and the output
\* 'Hello, World!\n', echoing the requested language; none ends in Timeout,
\* MemoryExceeded or RuntimeError.
C24_ExecutionIsMocked ==
    served > 0 =>
        /\ lastResp.code = 200
        /\ lastResp.json.status = "success"
        /\ lastResp.json.error = "null"
        /\ lastResp.json.output = "Hello, World!\n"
        /\ lastResp.json.language = lastReq.language

C24_Witness ==
    /\ served > 0
    /\ lastReq.code = "typed.loop"
    /\ lastReq.language = "cobol"
    /\ lastReq.input = "1 2"
    /\ lastResp.json.status = "success"
    /\ lastResp.json.output = "Hello, World!\n"

\* C26: when the pending timer is scheduled fairly, every call that was
\* started reaches a terminal state: a Running job becomes Completed.
C26_EveryJobTerminates ==
    \A n \in 1..MaxRuns :
        (jobs[1].n = n /\ jobs[1].state = "Running")
            ~> (jobs[1].n = n /\ jobs[1].state = "Completed")

C26_Witness ==
    /\ jobs[1].state = "Completed"
    /\ jobs[1].code = "typed.loop"
    /\ ~pages[1].isExecuting

\* C27: isExecuting is true exactly while a call started from the page is in
\* flight; a call is started only when none is in flight, and when it ends
\* isExecuting is false again.
C27_OneExecutionInFlight ==
    /\ [](\A p \in Pages : pages[p].isExecuting <=> jobs[p].state = "Running")
    /\ [][\A p \in Pages :
            /\ Submitted(p) =>
                  /\ jobs[p].state # "Running"
                  /\ ~pages[p].isExecuting
                  /\ pages'[p].isExecuting
            /\ (jobs[p].state = "Running" /\ jobs'[p].state # "Running") =>
                  ~pages'[p].isExecuting]_vars

C27_Witness ==
    /\ jobs[1].n = 2
    /\ jobs[1].state = "Running"
    /\ pages[1].isExecuting

\* C28: once a language or template change has emptied the output and error
\* panes they stay empty until the next click on Run Code, so a pane that
\* was empty gets text only by a click.
C28_PanesStayEmptyUntilRun ==
    [][\A p \in Pages :
          (pages[p].output = "" /\ pages[p].error = ""
              /\ (pages'[p].output # "" \/ pages'[p].error # "")) =>
                  Submitted(p)]_vars

\* q occurs in candidate, letter case ignored
ContainsIgnoringCase(candidate, q) ==
    \E i \in 1..(Len(candidate) - Len(q) + 1) :
        \A j \in 1..Len(q) : LowerChar(candidate[i + j - 1]) = LowerChar(q[j])

\* C29: GET /api/search/suggestions answers an empty list when q is missing or
\* shorter than 2 characters; otherwise it answers at most 5 suggestions, which
\* are the candidates that contain q (case ignored), in the candidates' order.
C29_Suggestions ==
    (served > 0 /\ lastReq.route = "GET /api/search/suggestions") =>
        IF \/ lastReq.q.type = "undefined"
           \/ lastReq.q.type = "string" /\ Len(lastReq.q.value) < 2
          THEN /\ lastResp.code = 200
               /\ lastResp.json.suggestions = <<>>
          ELSE /\ lastResp.code = 200
               /\ Len(lastResp.json.suggestions) <= 5
               /\ lastReq.q.type = "string" =>
                     lastResp.json.suggestions =
                        SelectSeq(suggestionCandidates,
                                  LAMBDA c : ContainsIgnoringCase(c, lastReq.q.value))

\* C30: GET /api/sandbox/templates never answers an error; it answers the
\* templates of the requested language when that is javascript, python or
\* java, and the templates of all languages otherwise.
C30_Templates ==
    (served > 0 /\ lastReq.route = "GET /api/sandbox/templates") =>
        /\ lastResp.code = 200
        /\ "templates" \in DOMAIN lastResp.json
        /\ IF lastReq.language \in {"javascript", "python", "java"}
             THEN lastResp.json.templates = backendTemplates[lastReq.language]
             ELSE lastResp.json.templates = backendTemplates

====
